---- MODULE Spec2Model ----
(***************************************************************************)
(* Model of book_translation_using_openai:                                *)
(*   book_translator.py    BookTranslator._split_text, translate_text,    *)
(*                         translate_book                                  *)
(*   merge_translations.py merge_translations                             *)
(*   excel_to_text.py      the page-annotated file layout                  *)
(*                                                                         *)
(* Text is a sequence of symbols.  A symbol stands for one maximal piece   *)
(* of text that the program's regular expressions treat as a unit:         *)
(*   "NL"  one newline                "SP"  one space                      *)
(*   "E80" a run of exactly 80 '='    "E40" a run of exactly 40 '='        *)
(*   "D"   a run of '-'               "w"   a word of the book             *)
(*   "t"   a word of the title block  "."   one of . ! ?                   *)
(*   "P1","P2","P3",...  the text "Page 1", "Page 2", ...                  *)
(* The documents of the model never put two '=' runs next to each other.   *)
(***************************************************************************)
EXTENDS Integers, Sequences, FiniteSets, TLC

\* ------------------------------------------------------------------ bounds

\* Pages per document in the segmenter's input set.
MaxPages == 2
\* Pages per document in translate_book's input set.
MaxBookPages == 1
\* Budgets 2..MaxBudget are tried for max_tokens.
MaxBudget == 10
\* Lines per file in the merger's unstructured input set.
MaxLines == 3
\* Pages, and content lines per page, in the merger's page-structured inputs.
MaxMergePages == 2
MaxContent == 2

\* ------------------------------------------------------------------- state

VARIABLES
    doc,                  \* the document the input file encodes
    book_text,            \* the text read from the input file
    max_tokens,           \* self.max_tokens
    encoding,             \* self.encoding
    chunks,               \* translate_book: chunks
    pc,                   \* translate_book: position in the function
    idx,                  \* translate_book: index of the chunk the loop is at
    translated_sections,  \* translate_book: translated_sections
    calls,                \* the calls of translate_text, in order: the unit
                          \* (0 the header, i the i-th chunk), the text
                          \* and what was returned
    log,                  \* "call" and "sleep" events, in order
    output_opened,        \* the output file has been opened for writing
    output_writes,        \* number of writes to the output file
    output_text,          \* what the output file holds
    arabic_lines,         \* merge_translations: arabic_lines
    english_lines,        \* merge_translations: english_lines
    ar_idx,               \* merge_translations: ar_idx
    en_idx,               \* merge_translations: en_idx
    out,                  \* merge_translations: the blocks written to f
    mpc                   \* merge_translations: position in the function

vars == <<doc, book_text, max_tokens, encoding, chunks, pc, idx, translated_sections,
          calls, log, output_opened, output_writes, output_text,
          arabic_lines, english_lines, ar_idx, en_idx, out, mpc>>

bookVars == <<doc, book_text, max_tokens, encoding, chunks, pc, idx,
              translated_sections, calls, log, output_opened, output_writes,
              output_text>>

mergeVars == <<arabic_lines, english_lines, ar_idx, en_idx, out, mpc>>

\* ---------------------------------------------------------------- alphabet

NL == "NL"
SP == "SP"
E80 == "E80"
E40 == "E40"
D == "D"
W == "w"
T == "t"
DOT == "."

\* The texts "Page 1" .. "Page 6".
PageLabelSeq == <<"P1", "P2", "P3", "P4", "P5", "P6">>

PageLabel(n) == PageLabelSeq[n]

PageLabels == { PageLabelSeq[n] : n \in DOMAIN PageLabelSeq }

Whitespace == {NL, SP}

EqRuns == {E80, E40}

\* ------------------------------------------------------------ text helpers

Drop(s, n) == SubSeq(s, n + 1, Len(s))

RECURSIVE Concat(_)
Concat(ss) == IF ss = <<>> THEN <<>> ELSE Head(ss) \o Concat(Tail(ss))

\* sep.join(parts)
RECURSIVE Join(_, _)
Join(sep, parts) ==
    IF parts = <<>> THEN <<>>
    ELSE IF Len(parts) = 1 THEN Head(parts)
    ELSE Head(parts) \o sep \o Join(sep, Tail(parts))

\* Length of the longest prefix of s made of symbols of set.
RECURSIVE RunLen(_, _)
RunLen(s, set) ==
    IF s = <<>> \/ Head(s) \notin set THEN 0 ELSE 1 + RunLen(Tail(s), set)

RECURSIVE LStrip(_)
LStrip(s) == IF s # <<>> /\ Head(s) \in Whitespace THEN LStrip(Tail(s)) ELSE s

RECURSIVE RStrip(_)
RStrip(s) ==
    IF s # <<>> /\ s[Len(s)] \in Whitespace
    THEN RStrip(SubSeq(s, 1, Len(s) - 1)) ELSE s

\* str.strip()
Strip(s) == RStrip(LStrip(s))

\* Length of a match of \n=+\n at the start of s, 0 when there is none.
MatchPageSep(s) ==
    IF s # <<>> /\ Head(s) = NL
    THEN LET k == RunLen(Tail(s), EqRuns)
         IN IF k >= 1 /\ Len(s) >= k + 2 /\ s[k + 2] = NL THEN k + 2 ELSE 0
    ELSE 0

\* re.split(r'\n=+\n', text)
RECURSIVE SplitPagesFrom(_, _)
SplitPagesFrom(cur, rest) ==
    IF rest = <<>> THEN <<cur>>
    ELSE LET m == MatchPageSep(rest)
         IN IF m > 0 THEN <<cur>> \o SplitPagesFrom(<<>>, Drop(rest, m))
            ELSE SplitPagesFrom(Append(cur, Head(rest)), Tail(rest))

SplitPages(text) == SplitPagesFrom(<<>>, text)

NoLabel == <<>>

\* re.search(r'Page (\d+)', page).group(0), NoLabel when there is no match
RECURSIVE SearchPageLabel(_)
SearchPageLabel(page) ==
    IF page = <<>> THEN NoLabel
    ELSE IF Head(page) \in PageLabels THEN <<Head(page)>>
    ELSE SearchPageLabel(Tail(page))

\* Length of a match of Page \d+\n-+\n at the start of s, 0 when none.
MatchPageHeader(s) ==
    IF Len(s) >= 2 /\ s[1] \in PageLabels /\ s[2] = NL
    THEN LET k == RunLen(Drop(s, 2), {D})
         IN IF k >= 1 /\ Len(s) >= k + 3 /\ s[k + 3] = NL THEN k + 3 ELSE 0
    ELSE 0

\* re.sub(r'Page \d+\n-+\n', '', page)
RECURSIVE RemovePageHeaders(_)
RemovePageHeaders(s) ==
    IF s = <<>> THEN <<>>
    ELSE LET m == MatchPageHeader(s)
         IN IF m > 0 THEN RemovePageHeaders(Drop(s, m))
            ELSE <<Head(s)>> \o RemovePageHeaders(Tail(s))

\* content.split('\n\n')
RECURSIVE SplitParagraphsFrom(_, _)
SplitParagraphsFrom(cur, rest) ==
    IF rest = <<>> THEN <<cur>>
    ELSE IF Len(rest) >= 2 /\ rest[1] = NL /\ rest[2] = NL
         THEN <<cur>> \o SplitParagraphsFrom(<<>>, Drop(rest, 2))
         ELSE SplitParagraphsFrom(Append(cur, Head(rest)), Tail(rest))

SplitParagraphs(content) == SplitParagraphsFrom(<<>>, content)

\* Length of a match of [.!?]\s+ at the start of s, 0 when none.
MatchSentenceEnd(s) ==
    IF s # <<>> /\ Head(s) = DOT
    THEN LET k == RunLen(Tail(s), Whitespace)
         IN IF k >= 1 THEN k + 1 ELSE 0
    ELSE 0

\* The loop over re.split(r'([.!?])\s+', para) in steps of two: every piece
\* joined to the punctuation captured after it, the last piece alone.
RECURSIVE SentencesFrom(_, _)
SentencesFrom(cur, rest) ==
    IF rest = <<>> THEN <<cur>>
    ELSE LET m == MatchSentenceEnd(rest)
         IN IF m > 0
            THEN <<Append(cur, Head(rest))>> \o SentencesFrom(<<>>, Drop(rest, m))
            ELSE SentencesFrom(Append(cur, Head(rest)), Tail(rest))

Sentences(para) == SentencesFrom(<<>>, para)

\* ---------------------------------------------------------- token counter

\* The encodings tiktoken.encoding_for_model may select.  Both fold a space
\* into the token that follows it and cut "Page 1" into "Page" and " 1".
\* p50k_base gives every newline a token of its own; cl100k_base has one
\* token for a sentence mark with the newline after it.
Encodings == {"p50k_base", "cl100k_base"}

\* Tokens the symbol c adds after the symbol prev ("" at the start).
TokensOf(prev, c) ==
    IF c = SP THEN 0
    ELSE IF c \in PageLabels THEN 2
    ELSE IF c = NL /\ prev = DOT /\ encoding = "cl100k_base" THEN 0
    ELSE 1

RECURSIVE CountFrom(_, _)
CountFrom(prev, text) ==
    IF text = <<>> THEN 0
    ELSE TokensOf(prev, Head(text)) + CountFrom(Head(text), Tail(text))

\* BookTranslator.count_tokens: len(self.encoding.encode(text))
count_tokens(text) == CountFrom("", text)

\* -------------------------------------------------------------- segmenter

\* Mutant of ChunkText: the label is left out.
ChunkText_NoLabel(page_num, para) == para

\* chunk_text = f"{page_num}\n{para}" if page_num else para
ChunkText(page_num, para) ==
    IF page_num # NoLabel THEN page_num \o <<NL>> \o para ELSE para

Flush(current_sentence_chunk) ==
    IF current_sentence_chunk # <<>> THEN <<current_sentence_chunk>> ELSE <<>>

\* The sentence loop of _split_text.  The result lists, for every chunk the
\* loop appends, the fragments that '\n'.join then serialises.
RECURSIVE SentenceLoop(_, _, _, _)
SentenceLoop(sentences, page_num, current_sentence_chunk, current_sentence_tokens) ==
    IF sentences = <<>> THEN Flush(current_sentence_chunk)
    ELSE LET sentence_text == ChunkText(page_num, Head(sentences))
             sentence_tokens == count_tokens(sentence_text)
         IN IF current_sentence_tokens + sentence_tokens > max_tokens
            THEN Flush(current_sentence_chunk)
                 \o SentenceLoop(Tail(sentences), page_num,
                                 <<sentence_text>>, sentence_tokens)
            ELSE SentenceLoop(Tail(sentences), page_num,
                              Append(current_sentence_chunk, sentence_text),
                              current_sentence_tokens + sentence_tokens)

\* One paragraph: the fragments of every chunk it yields.
ParagraphFragments(page_num, rawpara) ==
    LET para == Strip(rawpara)
        chunk_text == ChunkText(page_num, para)
    IN IF para = <<>> THEN <<>>
       ELSE IF count_tokens(chunk_text) > max_tokens
            THEN SentenceLoop(Sentences(para), page_num, <<>>, 0)
            ELSE << <<chunk_text>> >>

RECURSIVE ParagraphsFragments(_, _)
ParagraphsFragments(page_num, paragraphs) ==
    IF paragraphs = <<>> THEN <<>>
    ELSE ParagraphFragments(page_num, Head(paragraphs))
         \o ParagraphsFragments(page_num, Tail(paragraphs))

\* One page of the page loop.
PageFragments(page) ==
    IF Strip(page) = <<>> THEN <<>>
    ELSE LET page_num == SearchPageLabel(page)
             content == Strip(RemovePageHeaders(page))
         IN IF content = <<>> THEN <<>>
            ELSE ParagraphsFragments(page_num, SplitParagraphs(content))

RECURSIVE PagesFragments(_)
PagesFragments(pages) ==
    IF pages = <<>> THEN <<>>
    ELSE PageFragments(Head(pages)) \o PagesFragments(Tail(pages))

\* The fragment lists behind the chunks of _split_text(text).
SplitFragments(text) == PagesFragments(SplitPages(text))

\* BookTranslator._split_text
_split_text(text) ==
    LET fr == SplitFragments(text)
    IN [i \in 1..Len(fr) |-> Join(<<NL>>, fr[i])]

\* -------------------------------------------------------------- documents

\* The title block excel_to_formatted_text writes first: a line of 80 '=',
\* the title line, the source line, a line of 80 '=', a blank line.
TitleLine == <<T, SP, T>>
SourceLine == <<T>>
HeaderBlock == <<E80, NL>> \o TitleLine \o <<NL>> \o SourceLine \o <<NL, E80, NL, NL>>

\* The paragraphs a page of the input set may hold.
Bodies ==
    { << <<W>> >>,
      << <<W, SP, W>>, <<W>> >>,
      << <<W, DOT, NL, W, DOT>> >>,
      << <<W, DOT, SP, W, DOT, SP, W>> >>,
      << <<W, DOT, NL, W, DOT, NL, W, DOT>> >>,
      << <<SP>>, <<W, DOT>> >>,
      << <<W, NL, W>>, <<W, SP, W, SP, W, SP, W, SP, W, SP, W>> >>,
      << <<W, SP, PageLabel(6)>> >> }

PageSet == [labelled : BOOLEAN, paras : Bodies]

\* Documents of at most n pages, with or without the title block.
DocsUpTo(n) ==
    [header : BOOLEAN, pages : UNION { [1..k -> PageSet] : k \in 1..n }]

\* f.write(str(text) + '\n\n') for every row of a page
RECURSIVE RenderParas(_)
RenderParas(paras) ==
    IF paras = <<>> THEN <<>>
    ELSE Head(paras) \o <<NL, NL>> \o RenderParas(Tail(paras))

\* The page marker and divider: f.write(f'\nPage {page_num}\n'),
\* f.write('-' * 40 + '\n\n')
RenderMarker(n) == <<NL, PageLabel(n), NL, D, NL, NL>>

\* Page i of d as the file holds it.  Every page but the first thing in the
\* file is preceded by the separator '\n' + '=' * 40 + '\n'.
RenderPage(d, i) ==
    (IF i > 1 THEN <<NL, E40, NL>> ELSE <<>>)
    \o (IF d.pages[i].labelled THEN RenderMarker(i) ELSE <<>>)
    \o RenderParas(d.pages[i].paras)

RECURSIVE RenderPagesFrom(_, _)
RenderPagesFrom(d, i) ==
    IF i > Len(d.pages) THEN <<>>
    ELSE RenderPage(d, i) \o RenderPagesFrom(d, i + 1)

\* The text of the file that encodes document d.
Render(d) ==
    (IF d.header THEN HeaderBlock ELSE <<>>) \o RenderPagesFrom(d, 1)

\* __init__ sets self.max_tokens = 2000.  The documents of the model count
\* a few tokens, so the budgets tried are of that order.
Budgets == 2..MaxBudget

\* ------------------------------------------------- _split_text on its own

SplitInit ==
    /\ doc \in DocsUpTo(MaxPages)
    /\ book_text = Render(doc)
    /\ max_tokens \in Budgets
    /\ encoding \in Encodings
    /\ chunks = <<>>
    /\ pc = "split"
    /\ idx = 0
    /\ translated_sections = <<>>
    /\ calls = <<>>
    /\ log = <<>>
    /\ output_opened = FALSE
    /\ output_writes = 0
    /\ output_text = <<>>
    /\ arabic_lines = <<>>
    /\ english_lines = <<>>
    /\ ar_idx = 0
    /\ en_idx = 0
    /\ out = <<>>
    /\ mpc = "idle"

\* chunks = self._split_text(book_text)
SplitText ==
    /\ pc = "split"
    /\ chunks' = _split_text(book_text)
    /\ pc' = "split_done"
    /\ UNCHANGED <<doc, book_text, max_tokens, encoding, idx, translated_sections, calls,
                   log, output_opened, output_writes, output_text>>
    /\ UNCHANGED mergeVars

SplitNext == SplitText

SplitSpec == SplitInit /\ [][SplitNext]_vars

\* --------------------------------------------------------- translate_text

None == <<"None">>

\* What the endpoint does with one request: it raises, it answers with
\* content that .strip() leaves empty, or it answers with a translation.
Responses == {"raise", "blank", "text"}

\* The English text the endpoint returns for text.
Translated(text) == <<"EN">> \o text

\* BookTranslator.translate_text
translate_text(text, response) ==
    IF response = "raise" THEN None
    ELSE IF response = "blank" THEN <<>>
    ELSE Translated(text)

\* Python's truth value of what translate_text returned.
Truthy(r) == r # None /\ r # <<>>

\* --------------------------------------------------------- translate_book

\* The end of a match of \n={80} that starts at or after position j, 0 when
\* there is none (the lazy .*? takes the first).
RECURSIVE HeaderClose(_, _)
HeaderClose(text, j) ==
    IF j + 1 > Len(text) THEN 0
    ELSE IF text[j] = NL /\ text[j + 1] = E80 THEN j + 1
    ELSE HeaderClose(text, j + 1)

\* The middle \n of the pattern: the first newline at or after position i
\* that a closing \n={80} follows.
RECURSIVE HeaderEnd(_, _)
HeaderEnd(text, i) ==
    IF i > Len(text) THEN 0
    ELSE IF text[i] = NL /\ HeaderClose(text, i + 1) > 0
         THEN HeaderClose(text, i + 1)
    ELSE HeaderEnd(text, i + 1)

\* re.match(r'(={80}\n.*?\n.*?\n={80})', book_text, re.DOTALL).group(1),
\* or None
HeaderMatch(text) ==
    IF Len(text) >= 2 /\ text[1] = E80 /\ text[2] = NL /\ HeaderEnd(text, 3) > 0
    THEN SubSeq(text, 1, HeaderEnd(text, 3))
    ELSE None

\* Mutant of LoopDone: the loop stops one chunk early.
LoopDone_OffByOne(i, cs) == i >= Len(cs)

\* The for loop has run out of chunks.
LoopDone(i, cs) == i > Len(cs)

\* Mutant of AppendIfTruthy: the "if" is missing.
AppendIfTruthy_Always(sections, r) == Append(sections, r)

\* translated_sections.append(r) under "if r:"
AppendIfTruthy(sections, r) == IF Truthy(r) THEN Append(sections, r) ELSE sections

\* translate_book is run with a budget that makes paragraphs split and with
\* one that lets most of them through whole.
BookBudgets == {MaxBudget \div 2, MaxBudget}

BookInit ==
    /\ doc \in DocsUpTo(MaxBookPages)
    /\ book_text = Render(doc)
    /\ max_tokens \in BookBudgets
    /\ encoding \in Encodings
    /\ chunks = <<>>
    /\ pc = "open_input"
    /\ idx = 0
    /\ translated_sections = <<>>
    /\ calls = <<>>
    /\ log = <<>>
    /\ output_opened = FALSE
    /\ output_writes = 0
    /\ output_text = <<>>
    /\ arabic_lines = <<>>
    /\ english_lines = <<>>
    /\ ar_idx = 0
    /\ en_idx = 0
    /\ out = <<>>
    /\ mpc = "idle"

\* with open(input_file, 'r') as f: book_text = f.read()
ReadInput ==
    /\ pc = "open_input"
    /\ pc' = "split"
    /\ UNCHANGED <<doc, book_text, max_tokens, encoding, chunks, idx, translated_sections,
                   calls, log, output_opened, output_writes, output_text>>
    /\ UNCHANGED mergeVars

\* chunks = self._split_text(book_text); translated_sections = []
BookSplit ==
    /\ pc = "split"
    /\ chunks' = _split_text(book_text)
    /\ translated_sections' = <<>>
    /\ pc' = "header"
    /\ UNCHANGED <<doc, book_text, max_tokens, encoding, idx, calls, log, output_opened,
                   output_writes, output_text>>
    /\ UNCHANGED mergeVars

\* No header at the start of the text: straight to the loop.
NoHeader ==
    /\ pc = "header"
    /\ HeaderMatch(book_text) = None
    /\ pc' = "loop"
    /\ idx' = 1
    /\ UNCHANGED <<doc, book_text, max_tokens, encoding, chunks, translated_sections,
                   calls, log, output_opened, output_writes, output_text>>
    /\ UNCHANGED mergeVars

\* translated_header = self.translate_text(header), appended when truthy
TranslateHeader ==
    /\ pc = "header"
    /\ HeaderMatch(book_text) # None
    /\ \E response \in Responses :
          LET translated_header == translate_text(HeaderMatch(book_text), response)
          IN /\ translated_sections' =
                    AppendIfTruthy(translated_sections, translated_header)
             /\ calls' = Append(calls, [unit |-> 0, text |-> HeaderMatch(book_text),
                                        result |-> translated_header])
    /\ log' = Append(log, "call")
    /\ pc' = "loop"
    /\ idx' = 1
    /\ UNCHANGED <<doc, book_text, max_tokens, encoding, chunks, output_opened,
                   output_writes, output_text>>
    /\ UNCHANGED mergeVars

\* One pass of the loop body up to the if: translate_text(chunk), then
\* the append and on to time.sleep(2), or the warning and the next chunk.
TranslateChunk ==
    /\ pc = "loop"
    /\ ~LoopDone(idx, chunks)
    /\ \E response \in Responses :
          LET translated_chunk == translate_text(chunks[idx], response)
          IN /\ translated_sections' =
                    AppendIfTruthy(translated_sections, translated_chunk)
             /\ IF Truthy(translated_chunk)
                THEN pc' = "sleep" /\ idx' = idx
                ELSE pc' = "loop" /\ idx' = idx + 1
             /\ calls' = Append(calls, [unit |-> idx, text |-> chunks[idx],
                                        result |-> translated_chunk])
    /\ log' = Append(log, "call")
    /\ UNCHANGED <<doc, book_text, max_tokens, encoding, chunks, output_opened,
                   output_writes, output_text>>
    /\ UNCHANGED mergeVars

\* time.sleep(2), in the branch of a truthy translation
Sleep ==
    /\ pc = "sleep"
    /\ log' = Append(log, "sleep")
    /\ idx' = idx + 1
    /\ pc' = "loop"
    /\ UNCHANGED <<doc, book_text, max_tokens, encoding, chunks, translated_sections,
                   calls, output_opened, output_writes, output_text>>
    /\ UNCHANGED mergeVars

\* The loop is over: with open(output_file, 'w') as f
OpenOutput ==
    /\ pc = "loop"
    /\ LoopDone(idx, chunks)
    /\ output_opened' = TRUE
    /\ output_text' = <<>>
    /\ pc' = "write"
    /\ UNCHANGED <<doc, book_text, max_tokens, encoding, chunks, idx, translated_sections,
                   calls, log, output_writes>>
    /\ UNCHANGED mergeVars

\* f.write('\n\n'.join(translated_sections))
WriteOutput ==
    /\ pc = "write"
    /\ output_text' = Join(<<NL, NL>>, translated_sections)
    /\ output_writes' = output_writes + 1
    /\ pc' = "done"
    /\ UNCHANGED <<doc, book_text, max_tokens, encoding, chunks, idx, translated_sections,
                   calls, log, output_opened>>
    /\ UNCHANGED mergeVars

\* An Exception anywhere in the try block (an unreadable input file, an
\* unwritable output file, an error of the progress bar or of print):
\* the handler prints it and the function returns.
RaiseError ==
    /\ pc \in {"open_input", "split", "header", "loop", "sleep", "write"}
    /\ ~(pc = "loop" /\ LoopDone(idx, chunks))
    /\ pc' = "failed"
    /\ UNCHANGED <<doc, book_text, max_tokens, encoding, chunks, idx, translated_sections,
                   calls, log, output_opened, output_writes, output_text>>
    /\ UNCHANGED mergeVars

\* open(output_file, 'w') raises: the file is not opened.
OpenFails ==
    /\ pc = "loop"
    /\ LoopDone(idx, chunks)
    /\ pc' = "failed"
    /\ UNCHANGED <<doc, book_text, max_tokens, encoding, chunks, idx, translated_sections,
                   calls, log, output_opened, output_writes, output_text>>
    /\ UNCHANGED mergeVars

\* The process is killed (KeyboardInterrupt is no Exception: nothing
\* catches it).
Interrupt ==
    /\ pc \in {"open_input", "split", "header", "loop", "sleep", "write"}
    /\ pc' = "killed"
    /\ UNCHANGED <<doc, book_text, max_tokens, encoding, chunks, idx, translated_sections,
                   calls, log, output_opened, output_writes, output_text>>
    /\ UNCHANGED mergeVars

BookNext ==
    \/ ReadInput
    \/ BookSplit
    \/ NoHeader
    \/ TranslateHeader
    \/ TranslateChunk
    \/ Sleep
    \/ OpenOutput
    \/ WriteOutput
    \/ RaiseError
    \/ OpenFails
    \/ Interrupt

BookSpec == BookInit /\ [][BookNext]_vars

\* ------------------------------------------------------ merge_translations

EW == "e"

\* The lines readlines() may return in the unstructured input set: a blank
\* line, a page marker, a line of text.
ArabicLineSet == { <<NL>>, <<PageLabel(1), NL>>, <<W, NL>> }
EnglishLineSet == { <<NL>>, <<PageLabel(1), NL>>, <<EW, NL>> }

FilesUpTo(n, lineSet) == UNION { [1..k -> lineSet] : k \in 0..n }

\* c lines of text, a blank line after each.
RECURSIVE ContentLines(_, _)
ContentLines(word, c) ==
    IF c = 0 THEN <<>> ELSE << <<word, NL>>, <<NL>> >> \o ContentLines(word, c - 1)

\* A page-annotated file: for page i the marker line, the divider line, a
\* blank line and counts[i] lines of text.
RECURSIVE PagedFileFrom(_, _, _)
PagedFileFrom(word, counts, i) ==
    IF i > Len(counts) THEN <<>>
    ELSE << <<PageLabel(i), NL>>, <<D, NL>>, <<NL>> >>
         \o ContentLines(word, counts[i])
         \o PagedFileFrom(word, counts, i + 1)

PagedFiles(word) ==
    { PagedFileFrom(word, counts, 1) :
        counts \in UNION { [1..k -> 0..MaxContent] : k \in 1..MaxMergePages } }

\* line.startswith('Page ')
IsPageMarker(line) == line # <<>> /\ Head(line) \in PageLabels

\* while en_idx < len(english_lines) and not
\* english_lines[en_idx].strip().startswith('Page '): en_idx += 1
RECURSIVE SkipToMarker(_, _)
SkipToMarker(lines, e) ==
    IF e < Len(lines) /\ ~IsPageMarker(Strip(lines[e + 1]))
    THEN SkipToMarker(lines, e + 1)
    ELSE e

\* Mutant of PastMarker: the en_idx += 1 after the while loop is missing.
PastMarker_NoStep(lines, e) == SkipToMarker(lines, e)

\* The index after the skip: the while loop, then en_idx += 1.
PastMarker(lines, e) == SkipToMarker(lines, e) + 1

\* Mutant of MergeIteration: nothing advances on a blank English line.
MergeIteration_BlankStuck(a, e) ==
    [ar_idx |-> IF Strip(arabic_lines[a + 1]) = <<>> THEN a + 1 ELSE a,
     en_idx |-> e, blocks |-> <<>>]

\* One iteration of the merge loop from ar_idx = a, en_idx = e: the indexes
\* it leaves and the blocks it writes.  A block records ar_idx and en_idx
\* as the iteration found them and en_idx as it left it (en_next).
MergeIteration(a, e) ==
    LET ar_line == Strip(arabic_lines[a + 1])
        en_line == Strip(english_lines[e + 1])
    IN IF ar_line = <<>>
       THEN [ar_idx |-> a + 1, en_idx |-> e, blocks |-> <<>>]
       ELSE IF en_line = <<>>
       THEN [ar_idx |-> a, en_idx |-> e + 1, blocks |-> <<>>]
       ELSE IF IsPageMarker(ar_line)
       THEN [ar_idx |-> a + 1, en_idx |-> PastMarker(english_lines, e),
             blocks |-> << [kind |-> "marker", ar |-> a, en |-> e,
                            en_next |-> PastMarker(english_lines, e),
                            arabic |-> ar_line, english |-> <<>>] >>]
       ELSE [ar_idx |-> a + 1, en_idx |-> e + 1,
             blocks |-> << [kind |-> "pair", ar |-> a, en |-> e,
                            en_next |-> e + 1,
                            arabic |-> ar_line, english |-> en_line] >>]

\* while ar_idx < len(arabic_lines) and en_idx < len(english_lines)
LoopCondition(a, e) == a < Len(arabic_lines) /\ e < Len(english_lines)

MergeInit ==
    /\ arabic_lines \in FilesUpTo(MaxLines, ArabicLineSet) \cup PagedFiles(W)
    /\ english_lines \in FilesUpTo(MaxLines, EnglishLineSet) \cup PagedFiles(EW)
    /\ ar_idx = 0
    /\ en_idx = 0
    /\ out = <<>>
    /\ mpc = "open"
    /\ doc = <<>>
    /\ book_text = <<>>
    /\ max_tokens = MaxBudget
    /\ encoding = "cl100k_base"
    /\ chunks = <<>>
    /\ pc = "idle"
    /\ idx = 0
    /\ translated_sections = <<>>
    /\ calls = <<>>
    /\ log = <<>>
    /\ output_opened = FALSE
    /\ output_writes = 0
    /\ output_text = <<>>

\* Both files are read, the output is opened and its title block written.
MergeOpen ==
    /\ mpc = "open"
    /\ out' = << [kind |-> "title", ar |-> 0, en |-> 0, en_next |-> 0,
                  arabic |-> <<>>, english |-> <<>>] >>
    /\ ar_idx' = 0
    /\ en_idx' = 0
    /\ mpc' = "loop"
    /\ UNCHANGED <<arabic_lines, english_lines>>
    /\ UNCHANGED bookVars

\* One iteration of the while loop.
MergeStep ==
    /\ mpc = "loop"
    /\ LoopCondition(ar_idx, en_idx)
    /\ LET r == MergeIteration(ar_idx, en_idx)
       IN /\ ar_idx' = r.ar_idx
          /\ en_idx' = r.en_idx
          /\ out' = out \o r.blocks
    /\ UNCHANGED <<arabic_lines, english_lines, mpc>>
    /\ UNCHANGED bookVars

\* The loop condition fails: the file is closed and the function returns.
MergeExit ==
    /\ mpc = "loop"
    /\ ~LoopCondition(ar_idx, en_idx)
    /\ mpc' = "done"
    /\ UNCHANGED <<arabic_lines, english_lines, ar_idx, en_idx, out>>
    /\ UNCHANGED bookVars

MergeNext == MergeOpen \/ MergeStep \/ MergeExit

MergeSpec == MergeInit /\ [][MergeNext]_vars

\* The loop is sequential code: a step that can be taken is taken.
MergeFairSpec == MergeSpec /\ WF_vars(MergeNext)

\* ================================================================= claims

\* ---- the segmenter (SplitSpec)

Min(S) == CHOOSE x \in S : \A y \in S : x <= y

IsBlank(para) == \A k \in 1..Len(para) : para[k] \in Whitespace

\* The paragraph of the page the title block makes when the text is cut at
\* the lines of '='.
TitlePara == <<E80, NL>> \o TitleLine \o <<NL>> \o SourceLine

\* The label of page i of d as the reader sees it: its marker, else the
\* first "Page <n>" its text mentions, else none.
LabelOfPage(d, i) ==
    IF d.pages[i].labelled THEN <<PageLabel(i)>>
    ELSE LET flat == Concat(d.pages[i].paras)
             at == { k \in 1..Len(flat) : flat[k] \in PageLabels }
         IN IF at = {} THEN <<>> ELSE <<flat[Min(at)]>>

\* "<page_label>\n<paragraph>", or the paragraph alone.
Labelled(label, para) == IF label = <<>> THEN para ELSE label \o <<NL>> \o para

\* One entry per paragraph of d that is not blank, in document order.
RECURSIVE ParasOfPage(_, _, _)
ParasOfPage(d, i, k) ==
    IF k > Len(d.pages[i].paras) THEN <<>>
    ELSE (IF IsBlank(d.pages[i].paras[k]) THEN <<>>
          ELSE << Labelled(LabelOfPage(d, i), d.pages[i].paras[k]) >>)
         \o ParasOfPage(d, i, k + 1)

RECURSIVE ParasOfPages(_, _)
ParasOfPages(d, i) ==
    IF i > Len(d.pages) THEN <<>>
    ELSE ParasOfPage(d, i, 1) \o ParasOfPages(d, i + 1)

LabelledParagraphs(d) ==
    (IF d.header THEN <<TitlePara>> ELSE <<>>) \o ParasOfPages(d, 1)

AllParagraphsFit ==
    \A k \in 1..Len(LabelledParagraphs(doc)) :
        count_tokens(LabelledParagraphs(doc)[k]) <= max_tokens

\* C1: every chunk _split_text returns counts at most max_tokens tokens as
\* serialised (fragments joined by newlines), unless the chunk is a single
\* sentence fragment that alone exceeds max_tokens.
C1_ChunksWithinBudget ==
    pc = "split_done" =>
        \A i \in 1..Len(chunks) :
            \/ count_tokens(chunks[i]) <= max_tokens
            \/ /\ Len(SplitFragments(book_text)[i]) = 1
               /\ count_tokens(SplitFragments(book_text)[i][1]) > max_tokens

\* C5: when every label-prefixed paragraph fits the budget, _split_text
\* returns one chunk per paragraph that is not blank, in page and paragraph
\* order, each the paragraph behind its page's label and a newline (the
\* paragraph alone on a page without a label).
C5_OneChunkPerParagraph ==
    (pc = "split_done" /\ AllParagraphsFit) => chunks = LabelledParagraphs(doc)

C5_Witness ==
    /\ pc = "split_done"
    /\ AllParagraphsFit
    /\ Len(doc.pages) = 2
    /\ doc.pages[1].labelled
    /\ ~doc.pages[2].labelled
    /\ Len(doc.pages[1].paras) = 2
    /\ \E k \in 1..Len(doc.pages[2].paras) : IsBlank(doc.pages[2].paras[k])
    /\ Len(chunks) = 3
    /\ chunks[1] = <<PageLabel(1), NL, W, SP, W>>
    /\ chunks[3] = <<W, DOT>>

\* The document is one page holding one paragraph, no title block.
OneParagraph ==
    /\ ~doc.header
    /\ Len(doc.pages) = 1
    /\ Len(doc.pages[1].paras) = 1

TheLabel == LabelOfPage(doc, 1)

ThePara == doc.pages[1].paras[1]

\* Every fragment of every chunk, in output order.
AllFragments == Concat(SplitFragments(book_text))

\* C6: a paragraph over the budget whose sentences are each within it comes
\* out as several chunks, each within the budget, every fragment carrying
\* the page's label, the fragments being the paragraph's sentences in
\* order, none lost, repeated or cut.
C6_OversizedParagraph ==
    ( /\ pc = "split_done"
      /\ OneParagraph
      /\ count_tokens(Labelled(TheLabel, ThePara)) > max_tokens
      /\ \A k \in 1..Len(Sentences(ThePara)) :
            count_tokens(Labelled(TheLabel, Sentences(ThePara)[k])) <= max_tokens )
    => /\ Len(chunks) > 1
       /\ \A i \in 1..Len(chunks) : count_tokens(chunks[i]) <= max_tokens
       /\ AllFragments =
            [k \in 1..Len(Sentences(ThePara)) |->
                Labelled(TheLabel, Sentences(ThePara)[k])]

\* ---- translate_book (BookSpec)

ChunkCalls == SelectSeq(calls, LAMBDA c : c.unit > 0)

HeaderCalls == SelectSeq(calls, LAMBDA c : c.unit = 0)

\* The index in calls of the call made for chunk i.
CallOf(i) == CHOOSE k \in 1..Len(calls) : calls[k].unit = i

Attempted(i) == \E k \in 1..Len(calls) : calls[k].unit = i

NotFailed(r) == r # None

NonEmpty(r) == r # None /\ r # <<>>

\* The translations of chunks i.. in order: of those whose call came back
\* non-empty, or (nonEmptyOnly false) of all those whose call did not fail.
RECURSIVE TranslationsFrom(_, _)
TranslationsFrom(i, nonEmptyOnly) ==
    IF i > Len(chunks) THEN <<>>
    ELSE (IF /\ Attempted(i)
             /\ IF nonEmptyOnly THEN NonEmpty(calls[CallOf(i)].result)
                ELSE NotFailed(calls[CallOf(i)].result)
          THEN <<Translated(chunks[i])>> ELSE <<>>)
         \o TranslationsFrom(i + 1, nonEmptyOnly)

\* The header's translation, when there is a header and it came back
\* non-empty.
HeaderSection ==
    IF HeaderCalls # <<>> /\ NonEmpty(HeaderCalls[1].result)
    THEN <<Translated(HeaderCalls[1].text)>> ELSE <<>>

\* C2 as stated: the output written holds exactly the translations of the
\* chunks whose call did not fail, in chunk order.
C2_OnlySuccessfulChunks ==
    pc = "done" =>
        output_text = Join(<<NL, NL>>, TranslationsFrom(1, FALSE))

\* C2 as amended: a failed call does not end the run; the output written
\* holds the header's translation first (when the text starts with the
\* header block and its translation is non-empty) and then exactly the
\* non-empty translations of the chunks, in chunk order; a chunk whose call
\* failed or came back empty adds nothing.
C2_SuccessfulSectionsInOrder ==
    pc = "done" =>
        /\ \A i \in 1..Len(chunks) : Attempted(i)
        /\ output_text =
              Join(<<NL, NL>>, HeaderSection \o TranslationsFrom(1, TRUE))

C2_Witness ==
    /\ pc = "done"
    /\ Len(chunks) >= 3
    /\ HeaderSection # <<>>
    /\ calls[CallOf(1)].result = None
    /\ NonEmpty(calls[CallOf(2)].result)
    /\ calls[CallOf(3)].result = <<>>
    /\ output_text # <<>>

\* C3: every call of translate_text that is not the last event is followed
\* by the sleep, whatever it returned.
C3_SleepAfterEveryCall ==
    \A k \in 1..(Len(log) - 1) : log[k] = "call" => log[k + 1] = "sleep"

\* C4: the output file is written at most once, it is opened and written
\* only after every chunk has been attempted, and a run that stops before
\* the last chunk was attempted has neither opened nor written it.
C4_WriteOnceAtEnd ==
    /\ output_writes <= 1
    /\ (output_opened \/ output_writes > 0) =>
          /\ pc \in {"write", "done", "failed", "killed"}
          /\ \A i \in 1..Len(chunks) : Attempted(i)
    /\ (pc \in {"failed", "killed"} /\ \E i \in 1..Len(chunks) : ~Attempted(i)) =>
          (~output_opened /\ output_writes = 0 /\ output_text = <<>>)
    /\ pc = "done" => (output_opened /\ output_writes = 1)

C4_Witness ==
    /\ pc = "done"
    /\ output_writes = 1
    /\ Len(chunks) >= 2
    /\ output_text # <<>>

\* needle occurs in hay as a run of consecutive symbols.
Contains(hay, needle) ==
    \E k \in 0..(Len(hay) - Len(needle)) :
        SubSeq(hay, k + 1, k + Len(needle)) = needle

\* The lines of the header between its two lines of '='.
HeaderInterior(h) == SubSeq(h, 3, Len(h) - 2)

\* The texts submitted are the header, when there is one, and then every
\* chunk once, in the segmenter's order.
SubmittedInOrder ==
    [k \in 1..Len(calls) |-> calls[k].text] =
        (IF HeaderMatch(book_text) # None THEN <<HeaderMatch(book_text)>> ELSE <<>>)
        \o chunks

\* C9: every unit of text is submitted once and in document order: the
\* header, when the text starts with it, in one call before the first
\* chunk and in no chunk again, then every chunk once, in order.
C9_EachUnitSubmittedOnce ==
    pc \in {"write", "done"} =>
        /\ SubmittedInOrder
        /\ HeaderMatch(book_text) # None =>
              \A i \in 1..Len(chunks) :
                  ~Contains(chunks[i], HeaderInterior(HeaderMatch(book_text)))

\* ---- merge_translations (MergeSpec, MergeFairSpec)

PageCounts == UNION { [1..k -> 0..MaxContent] : k \in 1..MaxMergePages }

\* Both files hold the same page markers, a divider under each, and the
\* same number of content lines under each marker.
SamePages(counts) ==
    /\ arabic_lines = PagedFileFrom(W, counts, 1)
    /\ english_lines = PagedFileFrom(EW, counts, 1)

RECURSIVE Repeat(_, _)
Repeat(x, n) == IF n = 0 THEN <<>> ELSE <<x>> \o Repeat(x, n - 1)

\* Under each marker, that page's content lines paired in order.
RECURSIVE PairedPagesFrom(_, _)
PairedPagesFrom(counts, i) ==
    IF i > Len(counts) THEN <<>>
    ELSE << [kind |-> "marker", arabic |-> <<PageLabel(i)>>, english |-> <<>>] >>
         \o Repeat([kind |-> "pair", arabic |-> <<W>>, english |-> <<EW>>], counts[i])
         \o PairedPagesFrom(counts, i + 1)

\* The marker and pair blocks written, without the indexes.
Written ==
    LET body == SelectSeq(out, LAMBDA b : b.kind # "title")
    IN [k \in 1..Len(body) |->
           [kind |-> body[k].kind, arabic |-> body[k].arabic,
            english |-> body[k].english]]

\* C7: for two files with the same page markers, a divider under each and
\* the same number of content lines per page, the pairs written under each
\* marker are that page's content lines, i-th with i-th.
C7_PairsAreContentLines ==
    mpc = "done" =>
        \A counts \in PageCounts :
            SamePages(counts) => Written = PairedPagesFrom(counts, 1)

\* The translated stream is moved to just past its next page marker
\* whenever the source line is a page marker, and no pair written after
\* that uses a translated line from before that point.
SkipsToNextMarker ==
    \A k \in 1..Len(out) :
        out[k].kind = "marker" =>
            /\ out[k].en_next \in (out[k].en + 1)..(Len(english_lines) + 1)
            /\ \A j \in out[k].en..(out[k].en_next - 2) :
                  ~IsPageMarker(Strip(english_lines[j + 1]))
            /\ out[k].en_next <= Len(english_lines) =>
                  IsPageMarker(Strip(english_lines[out[k].en_next]))
            /\ \A m \in (k + 1)..Len(out) : out[m].en >= out[k].en_next
            /\ mpc \in {"loop", "done"} => en_idx >= out[k].en_next

\* C8 as stated: the skip to the next translated page marker, no pairing
\* across it, and no translated page marker ever written as the [English]
\* half of a pair.
C8_NoMarkerAsEnglish ==
    /\ SkipsToNextMarker
    /\ \A k \in 1..Len(out) :
          out[k].kind = "pair" => ~IsPageMarker(out[k].english)

\* C8 as amended: whenever the source line is a page marker the translated
\* stream is moved, writing nothing, to just past its next page marker
\* before another pair is written, so no translated line before that
\* marker is paired with a source line after the source marker.  (A
\* translated page marker is written as the [English] half of a pair when
\* the source line it meets is not a page marker.)
C8_SkipsToNextMarker == SkipsToNextMarker

C8_Witness ==
    /\ mpc = "done"
    /\ \E k \in 1..Len(out) :
          /\ out[k].kind = "marker"
          /\ out[k].en_next >= out[k].en + 2
          /\ k < Len(out)
          /\ out[k + 1].kind = "pair"
          /\ \E m \in 1..(k - 1) : out[m].kind = "pair"

\* An iteration of the loop moves neither index back and moves one forward.
IterationAdvances ==
    (mpc = "loop" /\ mpc' = "loop") =>
        /\ ar_idx' >= ar_idx
        /\ en_idx' >= en_idx
        /\ ar_idx' + en_idx' > ar_idx + en_idx

\* With either stream exhausted the next step leaves the loop and writes
\* nothing.
ExitsWhenExhausted ==
    (mpc = "loop" /\ (ar_idx >= Len(arabic_lines) \/ en_idx >= Len(english_lines)))
        => (mpc' = "done" /\ out' = out)

\* C10: the merge loop terminates: every iteration advances ar_idx or
\* en_idx, ar_idx never passes the number of source lines, and the loop is
\* left as soon as either stream is exhausted, the source lines that remain
\* not being written.
C10_MergeLoopTerminates ==
    /\ <>(mpc = "done")
    /\ [][IterationAdvances]_vars
    /\ [][ExitsWhenExhausted]_vars
    /\ [](ar_idx <= Len(arabic_lines) /\ en_idx <= Len(english_lines) + 1)

C10_Witness ==
    /\ mpc = "done"
    /\ en_idx = Len(english_lines) + 1
    /\ ar_idx < Len(arabic_lines)
    /\ \E k \in (ar_idx + 1)..Len(arabic_lines) :
          Strip(arabic_lines[k]) = <<W>>
    /\ out[Len(out)].kind = "marker"

====
